---- MODULE Spec2Model ----
(***************************************************************************)
(* A model of the HDF5 paired data loader (src/src/data/loader_h5.py) and  *)
(* of the image similarity losses (src/deepreg/loss/image.py).             *)
(*                                                                         *)
(* HDF5 keys are Python strings.  A key is modelled as a sequence of       *)
(* symbols, each symbol standing for a substring of the key and numbered   *)
(* by the code point of that substring's first character, so that the      *)
(* lexicographic order of the symbol sequences is the order Python's       *)
(* sorted() gives the strings:  "0".."9" are 48..57, "_bin" is 95,         *)
(* "case" is 99, "important" is 105, "labels" is 108 and "num_" is 110.    *)
(***************************************************************************)
EXTENDS Integers, Sequences, FiniteSets, TLC

VARIABLES stores, loader, gen, pureIn, pureOut

vars == <<stores, loader, gen, pureIn, pureOut>>

-----------------------------------------------------------------------------
(* Bounds of the model.                                                    *)

\* cases a store may hold: "case", "case0", "case1", ...
NumCases == 2

\* labels ("_binN" keys) a case may have in a label store
MaxLabels == 2

\* seeds are drawn from 0..MaxSeed
MaxSeed == 1

-----------------------------------------------------------------------------
(* Keys.                                                                   *)

SymBin == 95

SymCase == 99

SymDigit(d) == 48 + d

NUM_IMPORTANT == <<110, 105>>

NUM_LABELS == <<110, 108>>

SKIPPED_KEYS == {NUM_IMPORTANT, NUM_LABELS}

Cases == 0 .. NumCases - 1

\* "case", "case0", "case1", ...: the first key is a prefix of the others
CaseKey(c) == IF c = 0 THEN <<SymCase>> ELSE <<SymCase, SymDigit(c - 1)>>

\* "<case>_bin<b>"
LabelKey(c, b) == CaseKey(c) \o <<SymBin, SymDigit(b)>>

Min(a, b) == IF a < b THEN a ELSE b

Max(a, b) == IF a < b THEN b ELSE a

\* Python's str.__lt__: code point order at the first difference, a proper
\* prefix being smaller
StrLess(a, b) ==
    \E i \in 1 .. Min(Len(a), Len(b)) + 1 :
        /\ \A j \in 1 .. i - 1 : a[j] = b[j]
        /\ \/ i > Len(a) /\ i <= Len(b)
           \/ i <= Len(a) /\ i <= Len(b) /\ a[i] < b[i]

RECURSIVE InsertSorted(_, _)
InsertSorted(s, x) ==
    IF s = <<>> THEN <<x>>
    ELSE IF StrLess(x, s[Len(s)]) THEN Append(InsertSorted(SubSeq(s, 1, Len(s) - 1), x), s[Len(s)])
    ELSE Append(s, x)

\* Python's sorted() on a list of strings (stable insertion sort)
RECURSIVE sorted(_)
sorted(s) ==
    IF s = <<>> THEN <<>> ELSE InsertSorted(sorted(SubSeq(s, 1, Len(s) - 1)), s[Len(s)])

Reverse(s) == [i \in 1 .. Len(s) |-> s[Len(s) + 1 - i]]

RECURSIVE SetToSeq(_)
SetToSeq(S) ==
    IF S = {} THEN <<>> ELSE LET x == CHOOSE y \in S : TRUE IN Append(SetToSeq(S \ {x}), x)

Range(s) == {s[i] : i \in 1 .. Len(s)}

IsSorted(s) == \A i \in 1 .. Len(s) - 1 : StrLess(s[i], s[i + 1])

-----------------------------------------------------------------------------
(* HDF5 files.  A file is a function from its keys to the shape of the     *)
(* dataset under the key; the data of a dataset is identified by the file  *)
(* and the key.  The order in which h5py lists the keys of a file is an    *)
(* input of every operation that opens the file.                           *)

Orders == {"asc", "desc"}

\* hf.keys()
HfKeys(file, order) ==
    LET up == sorted(SetToSeq(DOMAIN file))
    IN  IF order = "asc" THEN up ELSE Reverse(up)

\* get_sorted_keys without the sort
get_sorted_keys_unsorted(file, order) == HfKeys(file, order)

get_sorted_keys(file, order) == sorted(HfKeys(file, order))

-----------------------------------------------------------------------------
(* Python dictionaries: the keys in insertion order and the values.        *)

EmptyDict == [keys |-> <<>>, val |-> <<>>]

DictHas(d, k) == k \in Range(d.keys)

\* a lookup that answers with the value of the first key of the dictionary
DictGet_first(d, k) == d.val[d.keys[1]]

DictGet(d, k) == d.val[k]

DictSet(d, k, v) ==
    IF DictHas(d, k) THEN [d EXCEPT !.val = [d.val EXCEPT ![k] = v]]
    ELSE [keys |-> Append(d.keys, k),
          val |-> [x \in Range(d.keys) \cup {k} |-> IF x = k THEN v ELSE d.val[x]]]

\* label_key.split("_bin")[0]
RECURSIVE SplitBinHead(_)
SplitBinHead(key) ==
    IF key = <<>> \/ key[1] = SymBin THEN <<>>
    ELSE <<key[1]>> \o SplitBinHead(Tail(key))

Ok(v) == [exc |-> "none", val |-> v]

Raise(e) == [exc |-> e, val |-> <<>>]

\* the loop of get_image_label_key_dict over label_keys[i..]
RECURSIVE BuildKeyDict(_, _, _, _)
BuildKeyDict(image_keys, label_keys, i, key_dict) ==
    IF i > Len(label_keys) THEN Ok(key_dict)
    ELSE LET label_key == label_keys[i]
             image_key == SplitBinHead(label_key)
         IN  IF image_key \in SKIPPED_KEYS
             THEN BuildKeyDict(image_keys, label_keys, i + 1, key_dict)
             ELSE IF image_key \notin Range(image_keys) THEN Raise("AssertionError")
             ELSE LET d0 == IF DictHas(key_dict, image_key) THEN key_dict
                            ELSE DictSet(key_dict, image_key, <<>>)
                      d1 == DictSet(d0, image_key, Append(DictGet(d0, image_key), label_key))
                  IN  BuildKeyDict(image_keys, label_keys, i + 1, d1)

\* get_image_label_key_dict with a list prepared for every image key before
\* the loop
get_image_label_key_dict_prefilled(image_file, label_file, order) ==
    LET image_keys == get_sorted_keys(image_file, order)
        label_keys == get_sorted_keys(label_file, order)
        prefilled == [keys |-> image_keys, val |-> [k \in Range(image_keys) |-> <<>>]]
        built == BuildKeyDict(image_keys, label_keys, 1, prefilled)
    IN  IF built.exc # "none" THEN built
        ELSE IF sorted(built.val.keys) # image_keys THEN Raise("AssertionError")
        ELSE built

get_image_label_key_dict(image_file, label_file, order) ==
    LET image_keys == get_sorted_keys(image_file, order)
        label_keys == get_sorted_keys(label_file, order)
        built == BuildKeyDict(image_keys, label_keys, 1, EmptyDict)
    IN  IF built.exc # "none" THEN built
        ELSE IF sorted(built.val.keys) # image_keys THEN Raise("AssertionError")
        ELSE built

\* get_image_shape without the loop over the other datasets
get_image_shape_first_only(file, order) ==
    LET listed == HfKeys(file, order)
        keys == sorted(SelectSeq(listed, LAMBDA k : k \notin SKIPPED_KEYS))
    IN  IF keys = <<>> THEN Raise("IndexError")
        ELSE IF Len(file[keys[1]]) # 3 THEN Raise("AssertionError")
        ELSE Ok(file[keys[1]])

\* get_image_shape
get_image_shape(file, order) ==
    LET listed == HfKeys(file, order)
        keys == sorted(SelectSeq(listed, LAMBDA k : k \notin SKIPPED_KEYS))
    IN  IF keys = <<>> THEN Raise("IndexError")
        ELSE LET sh == file[keys[1]]
             IN  IF Len(sh) # 3 THEN Raise("AssertionError")
                 ELSE IF \E i \in 1 .. Len(keys) : file[keys[i]] # sh THEN Raise("AssertionError")
                 ELSE Ok(sh)

-----------------------------------------------------------------------------
(* random.Random(seed).shuffle(keys).  The standard library's generator is *)
(* a deterministic stream of draws fixed by the seed; it is modelled by a  *)
(* small linear congruential generator.  The shuffle itself is the library *)
(* loop: for i from len-1 down to 1, swap x[i] with x[randbelow(i+1)].     *)

RandInit(seed) == (5 * seed + 13) % 16

RandStep(s) == (5 * s + 1) % 16

RandBelow(s, n) == (s \div 2) % n

Swap(x, i, j) == [x EXCEPT ![i] = x[j], ![j] = x[i]]

\* positions are 1-based here: i runs from Len(x) down to 2
RECURSIVE ShuffleFrom(_, _, _)
ShuffleFrom(x, i, s) ==
    IF i < 2 THEN x
    ELSE ShuffleFrom(Swap(x, i, RandBelow(s, i) + 1), i - 1, RandStep(s))

random_shuffle(seed, x) == ShuffleFrom(x, Len(x), RandInit(seed))

\* one bound of a Python slice over a sequence of length n
SliceBound(b, n) == IF b < 0 THEN Max(b + n, 0) ELSE Min(b, n)

\* a slice that also takes the element at its end bound
PySlice_inclusive(x, start, end) ==
    LET lo == SliceBound(start, Len(x))
        hi == Min(SliceBound(end, Len(x)) + 1, Len(x))
    IN  IF lo < hi THEN SubSeq(x, lo + 1, hi) ELSE <<>>

\* x[start:end]
PySlice(x, start, end) ==
    LET lo == SliceBound(start, Len(x))
        hi == SliceBound(end, Len(x))
    IN  IF lo < hi THEN SubSeq(x, lo + 1, hi) ELSE <<>>

-----------------------------------------------------------------------------
(* H5DataLoader.                                                           *)

StoreNames == {"moving_image", "fixed_image", "moving_label", "fixed_label"}

\* the loop "for k in moving_key_dict: assert moving_key_dict[k] == fixed_key_dict[k]"
RECURSIVE CheckKeyDicts(_, _, _)
CheckKeyDicts(moving_key_dict, fixed_key_dict, i) ==
    IF i > Len(moving_key_dict.keys) THEN "none"
    ELSE LET k == moving_key_dict.keys[i]
         IN  IF ~DictHas(fixed_key_dict, k) THEN "KeyError"
             ELSE IF DictGet(moving_key_dict, k) # DictGet(fixed_key_dict, k) THEN "AssertionError"
             ELSE CheckKeyDicts(moving_key_dict, fixed_key_dict, i + 1)

\* the index assertion of __init__
IndexAssertion(index_start, index_end, n) == index_start >= 0 /\ index_end <= n

\* "take specific data" over the dictionary's own key order, without the sort
TakeKeys_unsorted(moving_key_dict, seed, shuffle, index_start, index_end) ==
    LET keys == moving_key_dict.keys
        mixed == IF shuffle THEN random_shuffle(seed, keys) ELSE keys
    IN  PySlice(mixed, index_start, index_end)

\* "take specific data": sorted(moving_key_dict), shuffle, slice
TakeKeys(moving_key_dict, seed, shuffle, index_start, index_end) ==
    LET keys == sorted(moving_key_dict.keys)
        mixed == IF shuffle THEN random_shuffle(seed, keys) ELSE keys
    IN  PySlice(mixed, index_start, index_end)

\* H5DataLoader.__init__ over the four files f, up to the shape checks:
\* the key dictionary and the two image shapes, or the exception raised
LoadAndCheck(f, order) ==
    LET moving_key_dict == get_image_label_key_dict(f["moving_image"], f["moving_label"], order)
        fixed_key_dict == get_image_label_key_dict(f["fixed_image"], f["fixed_label"], order)
        same == CheckKeyDicts(moving_key_dict.val, fixed_key_dict.val, 1)
        moving_image_shape == get_image_shape(f["moving_image"], order)
        fixed_image_shape == get_image_shape(f["fixed_image"], order)
        moving_label_shape == get_image_shape(f["moving_label"], order)
        fixed_label_shape == get_image_shape(f["fixed_label"], order)
    IN  IF moving_key_dict.exc # "none" THEN Raise(moving_key_dict.exc)
        ELSE IF fixed_key_dict.exc # "none" THEN Raise(fixed_key_dict.exc)
        ELSE IF same # "none" THEN Raise(same)
        ELSE IF moving_image_shape.exc # "none" THEN Raise(moving_image_shape.exc)
        ELSE IF fixed_image_shape.exc # "none" THEN Raise(fixed_image_shape.exc)
        ELSE IF moving_label_shape.exc # "none" THEN Raise(moving_label_shape.exc)
        ELSE IF fixed_label_shape.exc # "none" THEN Raise(fixed_label_shape.exc)
        ELSE IF moving_image_shape.val # moving_label_shape.val THEN Raise("AssertionError")
        ELSE IF fixed_image_shape.val # fixed_label_shape.val THEN Raise("AssertionError")
        ELSE Ok([moving_key_dict |-> moving_key_dict.val,
                 moving_image_shape |-> moving_image_shape.val,
                 fixed_image_shape |-> fixed_image_shape.val])

\* the rest of H5DataLoader.__init__: "take specific data" and "save variables"
TakeAndSave(checked, seed, shuffle, index_start, index_end) ==
    IF checked.exc # "none" THEN checked
    ELSE IF ~IndexAssertion(index_start, index_end, Len(checked.val.moving_key_dict.keys))
         THEN Raise("AssertionError")
    ELSE Ok([key_dict |-> checked.val.moving_key_dict,
             keys |-> TakeKeys(checked.val.moving_key_dict, seed, shuffle, index_start, index_end),
             moving_image_filename |-> "moving_image",
             fixed_image_filename |-> "fixed_image",
             moving_label_filename |-> "moving_label",
             fixed_label_filename |-> "fixed_label",
             moving_image_shape |-> checked.val.moving_image_shape,
             fixed_image_shape |-> checked.val.fixed_image_shape])

\* H5DataLoader.__init__
H5DataLoader_init(f, seed, shuffle, index_start, index_end, order) ==
    TakeAndSave(LoadAndCheck(f, order), seed, shuffle, index_start, index_end)

\* hf.get(key)[()]: the data under the key; hf.get gives None for a missing
\* key and None[()] raises TypeError
HfRead(f, name, key) ==
    IF key \in DOMAIN f[name] THEN Ok(<<name, key>>) ELSE Raise("TypeError")

\* random.randrange(n): the draws it can return (ValueError on an empty range)
RandRange(n) == 0 .. n - 1

\* an enumeration that walks self.keys from its end
EnumerateKey_reversed(keys, image_index) == keys[Len(keys) - image_index]

\* enumerate(self.keys): the key paired with image_index (0-based)
EnumerateKey(keys, image_index) == keys[image_index + 1]

\* one pass of the loop body of get_generator, for the image_index-th key
\* (0-based) of keys, with the label draw label_index
GeneratorBody(f, self, keys, image_index, label_index) ==
    LET image_key == EnumerateKey(keys, image_index)
    IN  IF ~DictHas(self.key_dict, image_key) THEN Raise("KeyError")
        ELSE LET sorted_label_keys == sorted(DictGet(self.key_dict, image_key))
             IN  IF label_index \notin RandRange(Len(sorted_label_keys)) THEN Raise("ValueError")
                 ELSE LET label_key == sorted_label_keys[label_index + 1]
                          moving_image == HfRead(f, self.moving_image_filename, image_key)
                          moving_label == HfRead(f, self.moving_label_filename, label_key)
                          fixed_image == HfRead(f, self.fixed_image_filename, image_key)
                          fixed_label == HfRead(f, self.fixed_label_filename, label_key)
                      IN  IF moving_image.exc # "none" THEN Raise(moving_image.exc)
                          ELSE IF moving_label.exc # "none" THEN Raise(moving_label.exc)
                          ELSE IF fixed_image.exc # "none" THEN Raise(fixed_image.exc)
                          ELSE IF fixed_label.exc # "none" THEN Raise(fixed_label.exc)
                          ELSE Ok([moving_image |-> moving_image.val,
                                   fixed_image |-> fixed_image.val,
                                   moving_label |-> moving_label.val,
                                   fixed_label |-> fixed_label.val,
                                   indices |-> <<image_index, label_index>>,
                                   \* yield (moving_image, fixed_image, moving_label), fixed_label, indices
                                   yield |-> <<<<moving_image.val, fixed_image.val,
                                                 moving_label.val>>,
                                               fixed_label.val,
                                               <<image_index, label_index>>>>])

-----------------------------------------------------------------------------
(* The state machine of the loader: the four files, the loaders built from *)
(* them and the generators obtained from the loaders.                      *)

Seeds == 0 .. MaxSeed

Indices == -1 .. NumCases + 1

NoLoader == [status |-> "none"]

NoGen == [pc |-> "none"]

\* what random.randrange can hand the loop body for the case image_key: a
\* draw from the range, or no draw at all (0 stands for it) when the call raises
LabelDraws(self, image_key) ==
    IF DictHas(self.key_dict, image_key) /\ DictGet(self.key_dict, image_key) # <<>>
    THEN RandRange(Len(DictGet(self.key_dict, image_key)))
    ELSE {0}

\* H5DataLoader(...): the whole constructor; a loader that failed to
\* construct keeps only the exception
ConstructWith(l, seeds, shuffles, indices) ==
    /\ loader[l].status = "none"
    /\ \E order \in Orders :
          \E checked \in {LoadAndCheck(stores, order)} :
              IF checked.exc # "none"
              THEN loader' = [loader EXCEPT ![l] = [status |-> checked.exc]]
              ELSE \E seed \in seeds, shuffle \in shuffles,
                      index_start \in indices, index_end \in indices :
                      LET r == TakeAndSave(checked, seed, shuffle, index_start, index_end)
                      IN  loader' = [loader EXCEPT ![l] =
                              IF r.exc # "none" THEN [status |-> r.exc]
                              ELSE [status |-> "ok", self |-> r.val,
                                    args |-> [seed |-> seed, shuffle |-> shuffle,
                                              index_start |-> index_start,
                                              index_end |-> index_end]]]
    /\ UNCHANGED <<stores, gen, pureIn, pureOut>>

\* loader.get_generator(): the generator object, no code of the body run yet
GetGenerator(g) ==
    /\ gen[g].pc = "none"
    /\ \E l \in DOMAIN loader :
          /\ loader[l].status = "ok"
          /\ gen' = [gen EXCEPT ![g] =
                 [pc |-> "created", loader |-> l, keys |-> <<>>, i |-> 0,
                  seen |-> <<>>, item |-> <<>>]]
    /\ UNCHANGED <<stores, loader, pureIn, pureOut>>

\* a generator that takes each key it serves off the loader's self.keys
GenNext_consuming(g) ==
    /\ gen[g].pc \in {"created", "running"}
    /\ LET l == gen[g].loader
           self == loader[l].self
       IN  IF self.keys = <<>>
           THEN /\ gen' = [gen EXCEPT ![g] = [@ EXCEPT !.pc = "done", !.keys = <<>>]]
                /\ UNCHANGED loader
           ELSE \E label_index \in LabelDraws(self, self.keys[1]) :
                   LET r == GeneratorBody(stores, self, self.keys, 0, label_index)
                   IN  /\ gen' = [gen EXCEPT ![g] =
                              [@ EXCEPT !.pc = "running", !.keys = self.keys, !.i = @ + 1,
                                        !.item = r.val,
                                        !.seen = Append(@, [image_index |-> gen[g].i,
                                                            moving_image |-> r.val.moving_image,
                                                            fixed_image |-> r.val.fixed_image])]]
                       /\ loader' = [loader EXCEPT ![l].self.keys = Tail(@)]
    /\ UNCHANGED <<stores, pureIn, pureOut>>

\* next(generator): runs the body to its next yield or to its end.  The
\* first call opens the files and starts enumerate(self.keys).
GenNext(g) ==
    /\ gen[g].pc \in {"created", "running"}
    /\ LET self == loader[gen[g].loader].self
           keys == IF gen[g].pc = "created" THEN self.keys ELSE gen[g].keys
           i == gen[g].i
       IN  IF i >= Len(keys)
           THEN gen' = [gen EXCEPT ![g] = [@ EXCEPT !.pc = "done", !.keys = keys]]
           ELSE \E label_index \in LabelDraws(self, EnumerateKey(keys, i)) :
                   LET r == GeneratorBody(stores, self, keys, i, label_index)
                   IN  gen' = [gen EXCEPT ![g] =
                              IF r.exc # "none"
                              THEN [@ EXCEPT !.pc = r.exc, !.keys = keys]
                              ELSE [@ EXCEPT !.pc = "running", !.keys = keys, !.i = i + 1,
                                             !.item = r.val,
                                             !.seen = Append(@, [image_index |-> r.val.indices[1],
                                                                 moving_image |-> r.val.moving_image,
                                                                 fixed_image |-> r.val.fixed_image])]]
    /\ UNCHANGED <<stores, loader, pureIn, pureOut>>

\* a construction with any of the arguments drawn
Construct(l) == ConstructWith(l, Seeds, BOOLEAN, Indices)

Next ==
    \/ \E l \in DOMAIN loader : Construct(l)
    \/ \E g \in DOMAIN gen : GetGenerator(g)
    \/ \E g \in DOMAIN gen : GenNext(g)

-----------------------------------------------------------------------------
(* Initial files.  A pair of stores (image, label) is described per case   *)
(* by whether the image store holds the case and by how many labels the    *)
(* label store holds for it; a label store also holds the two bookkeeping  *)
(* keys.                                                                   *)

Shape3A == <<2, 2, 2>>

Shape3B == <<2, 2, 3>>

Shape2 == <<2, 2>>

BookShape == <<1>>

CaseOpts == [present : BOOLEAN, nlabels : 0 .. MaxLabels]

PairDescs == [Cases -> CaseOpts]

MkImageFile(desc, shape) ==
    [k \in {CaseKey(c) : c \in {x \in Cases : desc[x].present}} |-> shape]

MkLabelFile(desc, shape) ==
    [k \in {LabelKey(p[1], p[2]) :
               p \in {q \in Cases \X (0 .. MaxLabels - 1) : q[2] < desc[q[1]].nlabels}}
           \cup SKIPPED_KEYS |->
        IF k \in SKIPPED_KEYS THEN BookShape ELSE shape]

MkStores(moving, fixed, moving_shape, fixed_shape) ==
    [n \in StoreNames |->
        CASE n = "moving_image" -> MkImageFile(moving, moving_shape)
          [] n = "moving_label" -> MkLabelFile(moving, moving_shape)
          [] n = "fixed_image" -> MkImageFile(fixed, fixed_shape)
          [] n = "fixed_label" -> MkLabelFile(fixed, fixed_shape)]

\* the moving pair is any description; the fixed pair is the moving pair or
\* differs from it in one case; each pair has one shape throughout
Init ==
    /\ \E moving \in PairDescs, c \in Cases, opt \in CaseOpts,
          moving_shape \in {Shape3A, Shape3B}, fixed_shape \in {Shape3A, Shape3B} :
          stores = MkStores(moving, [moving EXCEPT ![c] = opt], moving_shape, fixed_shape)
    /\ loader = [l \in {1} |-> NoLoader]
    /\ gen = [g \in {1} |-> NoGen]
    /\ pureIn = <<>>
    /\ pureOut = <<>>

Spec == Init /\ [][Next]_vars

-----------------------------------------------------------------------------
(* Files that differ only in shapes: every case has its image and one      *)
(* label in both pairs, every dataset has one of two 3-D shapes, and at    *)
(* most one dataset is 2-D.                                                *)

FullDesc == [c \in Cases |-> [present |-> TRUE, nlabels |-> 1]]

Datasets ==
    {<<n, CaseKey(c)>> : n \in {"moving_image", "fixed_image"}, c \in Cases}
    \cup {<<n, LabelKey(c, 0)>> : n \in {"moving_label", "fixed_label"}, c \in Cases}

ShapedStores(sh, flat) ==
    LET base == MkStores(FullDesc, FullDesc, Shape3A, Shape3A)
    IN  [n \in StoreNames |->
            [k \in DOMAIN base[n] |->
                IF k \in SKIPPED_KEYS THEN BookShape
                ELSE IF <<n, k>> = flat THEN Shape2
                ELSE sh[<<n, k>>]]]

InitShape ==
    /\ \E sh \in [Datasets -> {Shape3A, Shape3B}], flat \in Datasets :
          stores = ShapedStores(sh, flat) \/ stores = ShapedStores(sh, <<>>)
    /\ loader = [l \in {1} |-> NoLoader]
    /\ gen = [g \in {1} |-> NoGen]
    /\ pureIn = <<>>
    /\ pureOut = <<>>

SpecShape == InitShape /\ [][Next]_vars

-----------------------------------------------------------------------------
(* Two loaders over the same well-formed files: the first n cases, one     *)
(* label each, the same in the moving and the fixed pair.                  *)

PrefixDesc(n) == [c \in Cases |-> [present |-> c < n, nlabels |-> IF c < n THEN 1 ELSE 0]]

InitPair ==
    /\ \E n \in 1 .. NumCases :
          stores = MkStores(PrefixDesc(n), PrefixDesc(n), Shape3A, Shape3A)
    /\ loader = [l \in {1, 2} |-> NoLoader]
    /\ gen = <<>>
    /\ pureIn = <<>>
    /\ pureOut = <<>>

NextPair == \E l \in DOMAIN loader : Construct(l)

SpecPair == InitPair /\ [][NextPair]_vars

-----------------------------------------------------------------------------
(* Three loaders over the same well-formed files, built with one seed and  *)
(* one shuffle flag and each with its own index range: a data set and two  *)
(* splits of it.                                                           *)

InitSplit ==
    /\ \E n \in 1 .. NumCases :
          stores = MkStores(PrefixDesc(n), PrefixDesc(n), Shape3A, Shape3A)
    /\ loader = [l \in {1, 2, 3} |-> NoLoader]
    /\ gen = <<>>
    /\ \E seed \in Seeds, shuffle \in BOOLEAN : pureIn = [seed |-> seed, shuffle |-> shuffle]
    /\ pureOut = <<>>

ConstructSplit(l) == ConstructWith(l, {pureIn.seed}, {pureIn.shuffle}, 0 .. NumCases)

NextSplit == \E l \in DOMAIN loader : ConstructSplit(l)

SpecSplit == InitSplit /\ [][NextSplit]_vars

-----------------------------------------------------------------------------
(* One loader over well-formed files, every case with the same number of   *)
(* labels, and two generators obtained from it, whose steps interleave.    *)

UniformDesc(k) == [c \in Cases |-> [present |-> TRUE, nlabels |-> k]]

InitGens ==
    /\ \E k \in 1 .. MaxLabels :
          stores = MkStores(UniformDesc(k), UniformDesc(k), Shape3A, Shape3A)
    /\ loader = [l \in {1} |-> NoLoader]
    /\ gen = [g \in {1, 2} |-> NoGen]
    /\ pureIn = <<>>
    /\ pureOut = <<>>

ConstructInRange(l) == ConstructWith(l, Seeds, BOOLEAN, 0 .. NumCases)

NextGens ==
    \/ \E l \in DOMAIN loader : ConstructInRange(l)
    \/ \E g \in DOMAIN gen : GetGenerator(g)
    \/ \E g \in DOMAIN gen : GenNext(g)

SpecGens == InitGens /\ [][NextGens]_vars

-----------------------------------------------------------------------------
(* get_image_label_key_dict as a function of two key lists.                *)

ImageKeyUniverse == {CaseKey(c) : c \in Cases} \cup {NUM_LABELS}

LabelKeyUniverse ==
    {LabelKey(c, b) : c \in Cases, b \in 0 .. MaxLabels - 1} \cup {CaseKey(0)} \cup SKIPPED_KEYS

KeysFile(keys) == [k \in keys |-> BookShape]

InitKeyDict ==
    /\ \E ik \in SUBSET ImageKeyUniverse, lk \in SUBSET LabelKeyUniverse :
          pureIn = [image_file |-> KeysFile(ik), label_file |-> KeysFile(lk)]
    /\ pureOut = [exc |-> "pending"]
    /\ stores = <<>>
    /\ loader = <<>>
    /\ gen = <<>>

CallKeyDict ==
    /\ pureOut.exc = "pending"
    /\ \E order \in Orders :
          pureOut' = get_image_label_key_dict(pureIn.image_file, pureIn.label_file, order)
    /\ UNCHANGED <<stores, loader, gen, pureIn>>

NextKeyDict == CallKeyDict

SpecKeyDict == InitKeyDict /\ [][NextKeyDict]_vars

-----------------------------------------------------------------------------
(* Properties of the loader.                                               *)

Constructed == {l \in DOMAIN loader : loader[l].status = "ok"}

GenStates == {"none", "created", "running", "done"}

\* a key with its trailing "_bin<digit>" removed, if it has one
StripBinSuffix(key) ==
    IF Len(key) >= 2 /\ key[Len(key) - 1] = SymBin THEN SubSeq(key, 1, Len(key) - 2) ELSE key

LabelsOf(label_keys, image_key) == {k \in label_keys \ SKIPPED_KEYS : StripBinSuffix(k) = image_key}

\* C1: get_image_label_key_dict returns normally exactly when the label keys
\* (bookkeeping keys aside) stripped of their _bin suffix are the image keys,
\* and fails an assertion otherwise; the dictionary returned has the image keys
\* as its keys and maps each to its label keys in ascending order.
C1_KeyDictContract ==
    pureOut.exc # "pending" =>
        LET image_keys == DOMAIN pureIn.image_file
            label_keys == DOMAIN pureIn.label_file
            stripped == {StripBinSuffix(k) : k \in label_keys \ SKIPPED_KEYS}
            d == pureOut.val
        IN  /\ pureOut.exc \in {"none", "AssertionError"}
            /\ pureOut.exc = "none" <=> stripped = image_keys
            /\ pureOut.exc = "none" =>
                  /\ Range(d.keys) = image_keys
                  /\ Len(d.keys) = Cardinality(image_keys)
                  /\ DOMAIN d.val = image_keys
                  /\ \A k \in image_keys :
                        /\ Range(d.val[k]) = LabelsOf(label_keys, k)
                        /\ IsSorted(d.val[k])

C1_Witness ==
    /\ pureOut.exc = "none"
    /\ Len(pureOut.val.keys) >= 2
    /\ \E k \in Range(pureOut.val.keys) : Len(pureOut.val.val[k]) >= 2
    /\ NUM_LABELS \in DOMAIN pureIn.label_file

\* C2: every case a constructed loader serves has a non-empty label list in
\* key_dict, and the label draw of a generator never fails.
C2_EveryCaseHasLabel ==
    /\ \A l \in Constructed :
          \A i \in 1 .. Len(loader[l].self.keys) :
              /\ DictHas(loader[l].self.key_dict, loader[l].self.keys[i])
              /\ DictGet(loader[l].self.key_dict, loader[l].self.keys[i]) # <<>>
    /\ \A g \in DOMAIN gen : gen[g].pc \in GenStates

C2_Witness ==
    \E g \in DOMAIN gen :
        /\ gen[g].pc = "done"
        /\ Len(gen[g].seen) >= 2
        /\ loader[gen[g].loader].args.shuffle
        /\ gen[g].item.indices[2] = 1

\* the shapes of the datasets (bookkeeping keys aside) of the named stores
ShapesIn(names) == {stores[n][k] : <<n, k>> \in {q \in names \X UNION {DOMAIN stores[n] : n \in names} :
                                                    q[2] \in DOMAIN stores[q[1]] \ SKIPPED_KEYS}}

OneShape3D(names) == Cardinality(ShapesIn(names)) = 1 /\ \A sh \in ShapesIn(names) : Len(sh) = 3

\* C3 as stated: a constructed loader's four stores hold datasets of one
\* common 3-D shape.
C3_AllStoresOneShape == \A l \in Constructed : OneShape3D(StoreNames)

\* C3, amended: a constructed loader's moving image and label stores hold
\* datasets of one 3-D shape, which is self.moving_image_shape, and its fixed
\* image and label stores hold datasets of one 3-D shape, which is
\* self.fixed_image_shape; the two shapes may differ.
C3_EachPairOneShape ==
    \A l \in Constructed :
        /\ OneShape3D({"moving_image", "moving_label"})
        /\ OneShape3D({"fixed_image", "fixed_label"})
        /\ ShapesIn({"moving_image", "moving_label"}) = {loader[l].self.moving_image_shape}
        /\ ShapesIn({"fixed_image", "fixed_label"}) = {loader[l].self.fixed_image_shape}

C3_Witness ==
    \E l \in Constructed :
        /\ loader[l].self.moving_image_shape = Shape3B
        /\ loader[l].self.fixed_image_shape = Shape3A

\* the case keys of the moving image store, ascending
SortedCases == sorted(SetToSeq(DOMAIN stores["moving_image"]))

\* the sorted, then optionally shuffled, case list of loader l
OrderedCases(l) ==
    IF loader[l].args.shuffle THEN random_shuffle(loader[l].args.seed, SortedCases) ELSE SortedCases

\* C4: loaders built from the same stores with the same arguments have the
\* same self.keys, whatever order the files list their keys in; without
\* shuffle self.keys is ascending; with shuffle the whole list is a permutation
\* of the sorted case keys fixed by the seed.
C4_OrderBySeed ==
    /\ \A l1 \in Constructed, l2 \in Constructed :
          loader[l1].args = loader[l2].args => loader[l1].self.keys = loader[l2].self.keys
    /\ \A l \in Constructed :
          /\ ~loader[l].args.shuffle => IsSorted(loader[l].self.keys)
          /\ loader[l].args.index_start = 0 /\ loader[l].args.index_end = Len(SortedCases) =>
                /\ Range(loader[l].self.keys) = Range(SortedCases)
                /\ Len(loader[l].self.keys) = Len(SortedCases)
                /\ loader[l].self.keys = OrderedCases(l)

C4_Witness ==
    /\ Constructed = {1, 2}
    /\ loader[1].args = loader[2].args
    /\ loader[1].args.shuffle
    /\ Len(loader[1].self.keys) >= 2
    /\ ~IsSorted(loader[1].self.keys)

\* C5 as stated: a constructed loader's index pair describes a range within
\* 0..number of cases, and self.keys is the index_end - index_start cases at
\* the positions index_start <= i < index_end of the ordered case list.
C5_HalfOpenRange ==
    \A l \in Constructed :
        LET a == loader[l].args
        IN  /\ 0 <= a.index_start
            /\ a.index_start <= a.index_end
            /\ a.index_end <= Len(SortedCases)
            /\ Len(loader[l].self.keys) = a.index_end - a.index_start
            /\ loader[l].self.keys = SubSeq(OrderedCases(l), a.index_start + 1, a.index_end)

\* C6: a generator yields one item per key of self.keys, in that order: the
\* k-th item carries image_index k and the images under self.keys[k]; it never
\* raises, and it ends after len(self.keys) items.
C6_OneItemPerCase ==
    \A g \in DOMAIN gen :
        /\ gen[g].pc \in GenStates
        /\ gen[g].pc # "none" =>
              LET keys == loader[gen[g].loader].self.keys
              IN  /\ Len(gen[g].seen) = gen[g].i
                  /\ gen[g].i <= Len(keys)
                  /\ \A k \in 1 .. Len(gen[g].seen) :
                        /\ gen[g].seen[k].image_index = k - 1
                        /\ gen[g].seen[k].moving_image = <<"moving_image", keys[k]>>
                        /\ gen[g].seen[k].fixed_image = <<"fixed_image", keys[k]>>
                  /\ gen[g].i > 0 =>
                        /\ gen[g].item.indices[1] = gen[g].i - 1
                        /\ gen[g].item.moving_image = gen[g].seen[gen[g].i].moving_image
                        /\ gen[g].item.fixed_image = gen[g].seen[gen[g].i].fixed_image
                  /\ gen[g].pc = "done" => gen[g].i = Len(keys)
                  /\ gen[g].pc = "running" /\ gen[g].i = Len(keys) => ENABLED GenNext(g)

C6_Witness ==
    \E g \in DOMAIN gen :
        /\ gen[g].pc = "done"
        /\ Len(gen[g].seen) = 2
        /\ gen[g].seen[1].moving_image # gen[g].seen[2].moving_image
        /\ ~IsSorted(loader[gen[g].loader].self.keys)

\* C7 as stated: a constructed loader's moving stores and fixed stores give
\* equal key dictionaries.
C7_SameKeyDicts ==
    \A l \in Constructed :
        \A order \in Orders :
            LET m == get_image_label_key_dict(stores["moving_image"], stores["moving_label"], order).val
                f == get_image_label_key_dict(stores["fixed_image"], stores["fixed_label"], order).val
            IN  /\ Range(m.keys) = Range(f.keys)
                /\ \A k \in Range(m.keys) : DictGet(m, k) = DictGet(f, k)

-----------------------------------------------------------------------------
(* Image losses (src/deepreg/loss/image.py).                               *)
(*                                                                         *)
(* A tensor is its shape and its values in row-major order.  Values are    *)
(* integers; results are exact rationals in lowest terms, one per batch    *)
(* item.  The mutual information, whose exponentials and logarithms have   *)
(* no exact value here, is carried as a term over its inputs: the function *)
(* applied, its hyper-parameters and the clipped voxels of the batch item. *)

RECURSIVE Gcd(_, _)
Gcd(a, b) == IF b = 0 THEN a ELSE Gcd(b, a % b)

Abs(x) == IF x < 0 THEN -x ELSE x

Rat(n, d) ==
    LET g == Gcd(Abs(n), Abs(d))
        sgn == IF d < 0 THEN -1 ELSE 1
    IN  [kind |-> "rat", num |-> sgn * (n \div g), den |-> sgn * (d \div g)]

RatInt(n) == Rat(n, 1)

RatAdd(x, y) == Rat(x.num * y.den + y.num * x.den, x.den * y.den)

RatSub(x, y) == Rat(x.num * y.den - y.num * x.den, x.den * y.den)

RatMul(x, y) == Rat(x.num * y.num, x.den * y.den)

\* x / y, cancelling common factors before multiplying
RatDiv(x, y) ==
    LET g1 == Gcd(Abs(x.num), Abs(y.num))
        g2 == Gcd(x.den, y.den)
        a == IF g1 = 0 THEN 0 ELSE (x.num \div g1) * (y.den \div g2)
        b == IF g1 = 0 THEN 1 ELSE (x.den \div g2) * (y.num \div g1)
    IN  Rat(a, b)

RatAbs(x) == [x EXCEPT !.num = Abs(@)]

RECURSIVE RatSum(_)
RatSum(xs) == IF xs = <<>> THEN RatInt(0) ELSE RatAdd(xs[1], RatSum(Tail(xs)))

\* tf.reduce_mean over a list of values
RatMean(xs) == RatDiv(RatSum(xs), RatInt(Len(xs)))

EPS == Rat(1, 100000)

\* unary minus on a value
Negative(v) == IF v.kind = "rat" THEN [v EXCEPT !.num = -@] ELSE [v EXCEPT !.neg = ~@]

RECURSIVE Product(_)
Product(shape) == IF shape = <<>> THEN 1 ELSE shape[1] * Product(Tail(shape))

Rank(t) == Len(t.shape)

BatchSize(t) == t.shape[1]

\* the values of batch item b (1-based), flattened
Item(t, b) ==
    LET per == Product(Tail(t.shape))
    IN  SubSeq(t.data, (b - 1) * per + 1, b * per)

\* tf.expand_dims(t, axis=4) on a 4-d tensor
ExpandDims4(t) == [t EXCEPT !.shape = Append(@, 1)]

\* tf.clip_by_value(t, 0, 1)
ClipByValue01(t) == [t EXCEPT !.data = [i \in DOMAIN t.data |-> Max(0, Min(1, t.data[i]))]]

\* SumSquaredDifference.call
SumSquaredDifference_call(self, y_true, y_pred) ==
    Ok([b \in 1 .. BatchSize(y_true) |->
           LET t == Item(y_true, b)
               p == Item(y_pred, b)
               loss == [i \in DOMAIN t |-> RatInt((t[i] - p[i]) * (t[i] - p[i]))]
           IN  RatMean(loss)])

\* GlobalMutualInformation.call
GlobalMutualInformation_call(self, y_true, y_pred) ==
    LET t0 == IF Rank(y_true) = 4 THEN ExpandDims4(y_true) ELSE y_true
        p0 == IF Rank(y_true) = 4 THEN ExpandDims4(y_pred) ELSE y_pred
    IN  IF ~(Rank(t0) = Rank(p0) /\ Rank(p0) = 5) THEN Raise("AssertionError")
        ELSE LET t == ClipByValue01(t0)
                 p == ClipByValue01(p0)
             IN  Ok([b \in 1 .. BatchSize(t) |->
                        [kind |-> "sym", neg |-> FALSE, fn |-> "mutual_information",
                         num_bins |-> self["num_bins"], sigma_ratio |-> self["sigma_ratio"],
                         y_true |-> Item(t, b), y_pred |-> Item(p, b)]])

\* LocalNormalizedCrossCorrelation.call
LocalNormalizedCrossCorrelation_call(self, y_true, y_pred) ==
    LET t == IF Rank(y_true) = 4 THEN ExpandDims4(y_true) ELSE y_true
        p == IF Rank(y_true) = 4 THEN ExpandDims4(y_pred) ELSE y_pred
    IN  IF ~(Rank(t) = Rank(p) /\ Rank(p) = 5) THEN Raise("AssertionError")
        ELSE IF "filters" \notin DOMAIN self \/ "kernel_vol" \notin DOMAIN self
             THEN Raise("AttributeError")
        ELSE Ok([b \in 1 .. BatchSize(t) |->
                    [kind |-> "sym", neg |-> FALSE, fn |-> "local_ncc",
                     filters |-> self["filters"], kernel_vol |-> self["kernel_vol"],
                     y_true |-> Item(t, b), y_pred |-> Item(p, b)]])

\* GlobalNormalizedCrossCorrelation.call
GlobalNormalizedCrossCorrelation_call(self, y_true, y_pred) ==
    Ok([b \in 1 .. BatchSize(y_true) |->
           LET t == [i \in DOMAIN Item(y_true, b) |-> RatInt(Item(y_true, b)[i])]
               p == [i \in DOMAIN Item(y_pred, b) |-> RatInt(Item(y_pred, b)[i])]
               mu_pred == RatMean(p)
               mu_true == RatMean(t)
               var_pred == RatMean([i \in DOMAIN p |->
                               RatMul(RatSub(p[i], mu_pred), RatSub(p[i], mu_pred))])
               var_true == RatMean([i \in DOMAIN t |->
                               RatMul(RatSub(t[i], mu_true), RatSub(t[i], mu_true))])
               numerator == RatAbs(RatMean([i \in DOMAIN t |->
                               RatMul(RatSub(p[i], mu_pred), RatSub(t[i], mu_true))]))
           IN  RatDiv(RatAdd(RatMul(numerator, numerator), EPS),
                      RatAdd(RatMul(var_pred, var_true), EPS))])

-----------------------------------------------------------------------------
(* Loss objects.  An object is the map of its attributes; the arguments of *)
(* a constructor call are a map of the keywords given.                     *)

Arg(kwargs, name, default) == IF name \in DOMAIN kwargs THEN kwargs[name] ELSE default

\* an exception raised in a constructor, with the attributes set so far
RaiseWith(e, attrs) == [exc |-> e, val |-> attrs]

\* tf.keras.losses.Loss.__init__ and get_config
Loss_init(reduction, name) == [reduction |-> reduction, name |-> name]

Loss_get_config(self) == [reduction |-> self["reduction"], name |-> self["name"]]

SumSquaredDifference_init(kwargs) ==
    Ok(Loss_init(Arg(kwargs, "reduction", "sum"), Arg(kwargs, "name", "SumSquaredDifference")))

GlobalMutualInformation_init(kwargs) ==
    LET self0 == Loss_init(Arg(kwargs, "reduction", "sum"),
                           Arg(kwargs, "name", "GlobalMutualInformation"))
    IN  Ok(self0 @@ [num_bins |-> Arg(kwargs, "num_bins", 23),
                     sigma_ratio |-> Arg(kwargs, "sigma_ratio", Rat(1, 2))])

kernel_fn_dict ==
    [gaussian |-> "gaussian_kernel1d", rectangular |-> "rectangular_kernel1d",
     triangular |-> "triangular_kernel1d"]

LocalNormalizedCrossCorrelation_init(kwargs) ==
    LET kernel_size == Arg(kwargs, "kernel_size", 9)
        kernel_type == Arg(kwargs, "kernel_type", "rectangular")
        self0 == Loss_init(Arg(kwargs, "reduction", "sum"),
                           Arg(kwargs, "name", "LocalNormalizedCrossCorrelation"))
        self1 == self0 @@ [kernel_fn |-> IF kernel_type \in DOMAIN kernel_fn_dict
                                          THEN kernel_fn_dict[kernel_type] ELSE "",
                           kernel_type |-> kernel_type]
    IN  IF kernel_type \notin DOMAIN kernel_fn_dict THEN RaiseWith("ValueError", self0)
        \* self.filters = tf.ones(shape=[self.kernel_size, ...]) reads self.kernel_size
        ELSE IF "kernel_size" \notin DOMAIN self1 THEN RaiseWith("AttributeError", self1)
        ELSE Ok(self1 @@ [filters |-> <<self1["kernel_size"], self1["kernel_size"],
                                        self1["kernel_size"], 1, 1>>,
                          strides |-> <<1, 1, 1, 1, 1>>,
                          padding |-> "SAME",
                          kernel_vol |-> kernel_size * kernel_size * kernel_size])

GlobalNormalizedCrossCorrelation_init(kwargs) ==
    Ok(Loss_init(Arg(kwargs, "reduction", "auto"),
                 Arg(kwargs, "name", "GlobalNormalizedCrossCorrelation")))

GlobalMutualInformation_get_config(self) ==
    Ok(Loss_get_config(self) @@ [num_bins |-> self["num_bins"],
                                 sigma_ratio |-> self["sigma_ratio"]])

LocalNormalizedCrossCorrelation_get_config(self) ==
    IF "kernel_size" \notin DOMAIN self \/ "kernel_type" \notin DOMAIN self
    THEN Raise("AttributeError")
    ELSE Ok(Loss_get_config(self) @@ [kernel_size |-> self["kernel_size"],
                                      kernel_type |-> self["kernel_type"]])

\* NegativeLossMixin.call: -super().call(y_true, y_pred)
NegativeLossMixin_call(super_call) ==
    IF super_call.exc # "none" THEN super_call
    ELSE Ok([b \in DOMAIN super_call.val |-> Negative(super_call.val[b])])

MetricClasses ==
    {"SumSquaredDifference", "GlobalMutualInformation", "LocalNormalizedCrossCorrelation",
     "GlobalNormalizedCrossCorrelation"}

\* the base classes of the three registered similarity losses, mixin last
GlobalMutualInformationLoss_bases_mixin_last == <<"GlobalMutualInformation", "NegativeLossMixin">>

GlobalMutualInformationLoss_bases == <<"NegativeLossMixin", "GlobalMutualInformation">>

LocalNormalizedCrossCorrelationLoss_bases == <<"NegativeLossMixin", "LocalNormalizedCrossCorrelation">>

GlobalNormalizedCrossCorrelationLoss_bases == <<"NegativeLossMixin", "GlobalNormalizedCrossCorrelation">>

LossClasses ==
    MetricClasses \cup {"GlobalMutualInformationLoss", "LocalNormalizedCrossCorrelationLoss",
                        "GlobalNormalizedCrossCorrelationLoss"}

\* the method resolution order of a class, up to tf.keras.losses.Loss
Mro(cls) ==
    CASE cls = "GlobalMutualInformationLoss" -> <<cls>> \o GlobalMutualInformationLoss_bases
      [] cls = "LocalNormalizedCrossCorrelationLoss" -> <<cls>> \o LocalNormalizedCrossCorrelationLoss_bases
      [] cls = "GlobalNormalizedCrossCorrelationLoss" -> <<cls>> \o GlobalNormalizedCrossCorrelationLoss_bases
      [] OTHER -> <<cls>>

\* the metric class among the classes of an order
MetricIn(mro) == mro[CHOOSE i \in 1 .. Len(mro) : mro[i] \in MetricClasses]

\* cls(**kwargs): __init__ is the metric class's
NewLoss(cls, kwargs) ==
    LET m == MetricIn(Mro(cls))
    IN  CASE m = "SumSquaredDifference" -> SumSquaredDifference_init(kwargs)
          [] m = "GlobalMutualInformation" -> GlobalMutualInformation_init(kwargs)
          [] m = "LocalNormalizedCrossCorrelation" -> LocalNormalizedCrossCorrelation_init(kwargs)
          [] m = "GlobalNormalizedCrossCorrelation" -> GlobalNormalizedCrossCorrelation_init(kwargs)

\* obj.call(y_true, y_pred), resolved along the order from position i;
\* super().call in the mixin resolves along the rest of the order
RECURSIVE CallVia(_, _, _, _, _)
CallVia(mro, i, self, y_true, y_pred) ==
    CASE mro[i] = "NegativeLossMixin" -> NegativeLossMixin_call(CallVia(mro, i + 1, self, y_true, y_pred))
      [] mro[i] = "SumSquaredDifference" -> SumSquaredDifference_call(self, y_true, y_pred)
      [] mro[i] = "GlobalMutualInformation" -> GlobalMutualInformation_call(self, y_true, y_pred)
      [] mro[i] = "LocalNormalizedCrossCorrelation" -> LocalNormalizedCrossCorrelation_call(self, y_true, y_pred)
      [] mro[i] = "GlobalNormalizedCrossCorrelation" -> GlobalNormalizedCrossCorrelation_call(self, y_true, y_pred)
      [] OTHER -> CallVia(mro, i + 1, self, y_true, y_pred)

\* obj.get_config()
GetConfig(cls, self) ==
    LET m == MetricIn(Mro(cls))
    IN  CASE m = "GlobalMutualInformation" -> GlobalMutualInformation_get_config(self)
          [] m = "LocalNormalizedCrossCorrelation" -> LocalNormalizedCrossCorrelation_get_config(self)
          [] OTHER -> Ok(Loss_get_config(self))

-----------------------------------------------------------------------------
(* The state machine of one loss object: it is constructed, then called on *)
(* a pair of tensors and asked for its configuration.                      *)

\* the largest voxel value drawn
MaxVal == 2

TensorShapes == {<<1, 3>>, <<2, 1>>, <<1, 1, 1, 3>>, <<2, 1, 1, 1>>}

RECURSIVE SeqsOf(_, _)
SeqsOf(S, n) == IF n = 0 THEN {<<>>} ELSE {Append(q, x) : q \in SeqsOf(S, n - 1), x \in S}

Tensors(shape) == {[shape |-> shape, data |-> d] : d \in SeqsOf(0 .. MaxVal, Product(shape))}

KwargsFor(cls) ==
    CASE MetricIn(Mro(cls)) = "GlobalMutualInformation" ->
            [num_bins : {4, 23}, sigma_ratio : {Rat(1, 2), Rat(1, 1)}]
      [] MetricIn(Mro(cls)) = "LocalNormalizedCrossCorrelation" ->
            [kernel_size : {3, 9}, kernel_type : {"gaussian", "rectangular", "triangular", "box"}]
      [] OTHER -> {<<>>}

InitLoss ==
    /\ \E cls \in LossClasses : \E kwargs \in KwargsFor(cls) :
          pureIn = [cls |-> cls, kwargs |-> kwargs]
    /\ pureOut = [obj |-> [exc |-> "pending"], call |-> <<>>, config |-> <<>>]
    /\ stores = <<>>
    /\ loader = <<>>
    /\ gen = <<>>

LossConstruct ==
    /\ pureOut.obj.exc = "pending"
    /\ pureOut' = [pureOut EXCEPT !.obj = NewLoss(pureIn.cls, pureIn.kwargs)]
    /\ UNCHANGED <<stores, loader, gen, pureIn>>

LossCall ==
    /\ pureOut.obj.exc = "none"
    /\ pureOut.call = <<>>
    /\ \E shape \in TensorShapes : \E y_true \in Tensors(shape), y_pred \in Tensors(shape) :
          pureOut' = [pureOut EXCEPT !.call =
              [y_true |-> y_true, y_pred |-> y_pred,
               out |-> CallVia(Mro(pureIn.cls), 1, pureOut.obj.val, y_true, y_pred)]]
    /\ UNCHANGED <<stores, loader, gen, pureIn>>

LossGetConfig ==
    /\ pureOut.obj.exc = "none"
    /\ pureOut.config = <<>>
    /\ pureOut.call = <<>>
    /\ pureOut' = [pureOut EXCEPT !.config = GetConfig(pureIn.cls, pureOut.obj.val)]
    /\ UNCHANGED <<stores, loader, gen, pureIn>>

NextLoss == LossConstruct \/ LossCall \/ LossGetConfig

SpecLoss == InitLoss /\ [][NextLoss]_vars

-----------------------------------------------------------------------------
(* Properties of the losses.                                               *)

Called == pureOut.obj.exc = "none" /\ pureOut.call # <<>>

\* the metric a registered similarity loss wraps, called on the same tensors
\* by an object built from the same arguments
WrappedMetricCall ==
    LET y_true == pureOut.call.y_true
        y_pred == pureOut.call.y_pred
    IN  CASE pureIn.cls = "GlobalMutualInformationLoss" ->
                GlobalMutualInformation_call(GlobalMutualInformation_init(pureIn.kwargs).val,
                                             y_true, y_pred)
          [] pureIn.cls = "LocalNormalizedCrossCorrelationLoss" ->
                LocalNormalizedCrossCorrelation_call(
                    LocalNormalizedCrossCorrelation_init(pureIn.kwargs).val, y_true, y_pred)
          [] pureIn.cls = "GlobalNormalizedCrossCorrelationLoss" ->
                GlobalNormalizedCrossCorrelation_call(
                    GlobalNormalizedCrossCorrelation_init(pureIn.kwargs).val, y_true, y_pred)

SumOfSquaredDifferences(y_true, y_pred, b) ==
    LET t == Item(y_true, b)
        p == Item(y_pred, b)
    IN  RatSum([i \in DOMAIN t |-> RatInt((t[i] - p[i]) * (t[i] - p[i]))])

\* C9 as stated: SumSquaredDifference.call returns, per batch item, the sum of
\* the squared elementwise differences, as a tensor of shape (batch,).
C9_SumOfSquares ==
    Called /\ pureIn.cls = "SumSquaredDifference" =>
        /\ pureOut.call.out.exc = "none"
        /\ Len(pureOut.call.out.val) = BatchSize(pureOut.call.y_true)
        /\ \A b \in 1 .. BatchSize(pureOut.call.y_true) :
              pureOut.call.out.val[b] =
                  SumOfSquaredDifferences(pureOut.call.y_true, pureOut.call.y_pred, b)

\* C10 as stated: GlobalMutualInformation and LocalNormalizedCrossCorrelation
\* (with a kernel_type among gaussian, rectangular, triangular) construct, and
\* get_config holds the constructor arguments under their names, so that an
\* object built from the config has an equal config.
C10_ConfigRecreates ==
    /\ pureOut.obj.exc # "pending"
    /\ pureIn.cls \in {"GlobalMutualInformation", "LocalNormalizedCrossCorrelation"}
    /\ "kernel_type" \in DOMAIN pureIn.kwargs =>
          pureIn.kwargs["kernel_type"] \in {"gaussian", "rectangular", "triangular"}
    =>
    /\ pureOut.obj.exc = "none"
    /\ pureOut.config # <<>> =>
          /\ pureOut.config.exc = "none"
          /\ \A k \in DOMAIN pureIn.kwargs : pureOut.config.val[k] = pureIn.kwargs[k]
          /\ NewLoss(pureIn.cls, pureOut.config.val).exc = "none"
          /\ GetConfig(pureIn.cls, NewLoss(pureIn.cls, pureOut.config.val).val) = pureOut.config

\* the classes whose constructor is LocalNormalizedCrossCorrelation.__init__
LnccClasses == {c \in LossClasses : MetricIn(Mro(c)) = "LocalNormalizedCrossCorrelation"}

\* C11 as stated: LocalNormalizedCrossCorrelation.__init__ raises ValueError
\* when kernel_type is not gaussian, rectangular or triangular, before any
\* kernel, filter or kernel volume attribute is set on the object, and raises
\* no error for those three values.
C11_KernelTypeValidation ==
    pureOut.obj.exc # "pending" /\ pureIn.cls \in LnccClasses =>
        IF pureIn.kwargs["kernel_type"] \in {"gaussian", "rectangular", "triangular"}
        THEN pureOut.obj.exc = "none"
        ELSE /\ pureOut.obj.exc = "ValueError"
             /\ DOMAIN pureOut.obj.val \cap
                    {"kernel_fn", "kernel_type", "filters", "strides", "padding",
                     "kernel_vol"} = {}

-----------------------------------------------------------------------------
(* Further properties of the loader.                                       *)

\* the generators that have yielded at least one item
Yielded == {g \in DOMAIN gen : gen[g].pc \in {"running", "done"} /\ gen[g].i > 0}

\* the key of the case of the last item a generator yielded
LastKey(g) == loader[gen[g].loader].self.keys[gen[g].i]

\* C12 as stated: an item of get_generator is the pair
\* ((moving_image, fixed_image, moving_label), fixed_label) when the case has
\* a label, and the pair (moving_image, fixed_image) when it has none.
C12_ItemForm ==
    \A g \in Yielded :
        LET item == gen[g].item
            key_dict == loader[gen[g].loader].self.key_dict
        IN  IF DictHas(key_dict, LastKey(g)) /\ DictGet(key_dict, LastKey(g)) # <<>>
            THEN item.yield = <<<<item.moving_image, item.fixed_image, item.moving_label>>,
                                item.fixed_label>>
            ELSE item.yield = <<item.moving_image, item.fixed_image>>

\* the label keys the moving label store holds for a case, ascending
CaseLabels(image_key) == sorted(SetToSeq(LabelsOf(DOMAIN stores["moving_label"], image_key)))

\* C13: in every item yielded, the moving label and the fixed label are read
\* under one label key; that key is a label key of the item's own case; and
\* label_index lies in 0 .. (number of labels of the case) - 1 and is the
\* position of the label key in the case's ascending label list.
C13_LabelDrawOfOwnCase ==
    \A g \in Yielded :
        LET item == gen[g].item
            labels == CaseLabels(LastKey(g))
            label_index == item.indices[2]
        IN  /\ item.moving_image = <<"moving_image", LastKey(g)>>
            /\ item.moving_label[1] = "moving_label"
            /\ item.fixed_label[1] = "fixed_label"
            /\ item.moving_label[2] = item.fixed_label[2]
            /\ item.moving_label[2] \in DOMAIN stores["moving_label"]
            /\ item.fixed_label[2] \in DOMAIN stores["fixed_label"]
            /\ StripBinSuffix(item.moving_label[2]) = LastKey(g)
            /\ 0 <= label_index /\ label_index < Len(labels)
            /\ labels[label_index + 1] = item.moving_label[2]
            /\ item.yield[1][3] = item.moving_label
            /\ item.yield[2] = item.fixed_label
            /\ item.yield[3][2] = label_index

\* the second case served, with the second of its two labels drawn
C13_Witness ==
    \E g \in Yielded :
        /\ gen[g].i = 2
        /\ gen[g].item.indices[2] = 1
        /\ Len(CaseLabels(LastKey(g))) = 2
        /\ Len(CaseLabels(loader[gen[g].loader].self.keys[1])) = 1

\* C14: for loaders built from the same stores with the same seed and shuffle
\* flag, the keys of the loader over [a, b) and of the loader over [b, c),
\* 0 <= a <= b <= c <= number of cases, are disjoint and their concatenation
\* is the keys of the loader over [a, c).
C14_SplitsPartition ==
    \A l1 \in Constructed, l2 \in Constructed, l3 \in Constructed :
        LET a1 == loader[l1].args
            a2 == loader[l2].args
            a3 == loader[l3].args
        IN  /\ a1.seed = a2.seed /\ a2.seed = a3.seed
            /\ a1.shuffle = a2.shuffle /\ a2.shuffle = a3.shuffle
            /\ 0 <= a1.index_start /\ a1.index_start <= a1.index_end
            /\ a1.index_end = a2.index_start
            /\ a2.index_start <= a2.index_end /\ a2.index_end <= Len(SortedCases)
            /\ a3.index_start = a1.index_start /\ a3.index_end = a2.index_end
            =>
            /\ Range(loader[l1].self.keys) \cap Range(loader[l2].self.keys) = {}
            /\ loader[l1].self.keys \o loader[l2].self.keys = loader[l3].self.keys
            /\ Len(loader[l3].self.keys) = a3.index_end - a3.index_start
            /\ Cardinality(Range(loader[l3].self.keys)) = Len(loader[l3].self.keys)

\* a shuffled data set of two cases and its two one-case splits
C14_Witness ==
    /\ Constructed = {1, 2, 3}
    /\ loader[1].args.shuffle
    /\ loader[1].args.index_start = 0 /\ loader[1].args.index_end = 1
    /\ loader[2].args.index_start = 1 /\ loader[2].args.index_end = 2
    /\ loader[3].args.index_start = 0 /\ loader[3].args.index_end = 2
    /\ ~IsSorted(loader[3].self.keys)
    /\ loader[1].self.keys # <<>> /\ loader[2].self.keys # <<>>

\* the cases a generator has visited so far are the first cases of self.keys
\* of its loader, in that order, numbered from 0
VisitsKeysInOrder(g) ==
    LET keys == loader[gen[g].loader].self.keys
    IN  /\ Len(gen[g].seen) <= Len(keys)
        /\ \A k \in 1 .. Len(gen[g].seen) :
              /\ gen[g].seen[k].image_index = k - 1
              /\ gen[g].seen[k].moving_image = <<"moving_image", keys[k]>>
              /\ gen[g].seen[k].fixed_image = <<"fixed_image", keys[k]>>
        /\ gen[g].pc = "done" => Len(gen[g].seen) = Len(keys)

\* a step of a generator, or the call of get_generator
GeneratorStep == \E g \in DOMAIN gen : gen'[g] # gen[g]

\* C15: no step of a generator changes the loader (self.keys, self.key_dict,
\* the four filenames, the stored shapes) or the files; generators of one
\* loader, interleaved in any way, never raise and each visit the cases of
\* self.keys in order with image_index 0 .. len(self.keys) - 1, so that of two
\* generators one has visited a prefix of what the other has.
C15_GeneratorsLeaveLoader ==
    /\ [][GeneratorStep => loader' = loader /\ stores' = stores]_vars
    /\ [](\A g \in DOMAIN gen :
            /\ gen[g].pc \in GenStates
            /\ gen[g].pc # "none" => VisitsKeysInOrder(g))
    /\ [](\A g1 \in DOMAIN gen, g2 \in DOMAIN gen :
            /\ gen[g1].pc # "none" /\ gen[g2].pc # "none"
            /\ gen[g1].loader = gen[g2].loader
            /\ Len(gen[g1].seen) <= Len(gen[g2].seen)
            => gen[g1].seen = SubSeq(gen[g2].seen, 1, Len(gen[g1].seen)))

\* two generators of one loader over two shuffled cases, the first finished
\* before the second, which started while the first was running, and the two
\* with different label draws for the last case
C15_Witness ==
    /\ gen[1].pc = "done" /\ gen[2].pc = "running"
    /\ Len(gen[1].seen) = 2 /\ Len(gen[2].seen) = 2
    /\ gen[1].seen = gen[2].seen
    /\ gen[1].item.indices[2] # gen[2].item.indices[2]
    /\ loader[1].args.shuffle
    /\ ~IsSorted(loader[1].self.keys)

====
